---------------------------- MODULE Spec2Model ----------------------------
(***************************************************************************)
(* TaskScheduler scheduling engine (server/algorithms.ts): the max-heap    *)
(* PriorityQueue, detectConflicts, rescheduleTask, calculateAnalytics and  *)
(* generateRecommendations; and the storage layer (DatabaseStorage) with   *)
(* its tasks and completion_history tables.                                *)
(*                                                                         *)
(* Time values are JavaScript epoch milliseconds.  They exceed 32 bits, so *)
(* a time value v is the pair <<hi, lo>> with v = hi * Base + lo and       *)
(* 0 <= lo < Base.  Task objects are identified by their id: task[id] is   *)
(* the (mutable) object, arrays hold ids (references).                     *)
(***************************************************************************)
EXTENDS Integers, Sequences, FiniteSets, Bags, TLC

VARIABLES
  task,        \* id -> Task object (fields priority, deadline, estimatedDuration, status)
  tasks,       \* the caller's Task[] array: a sequence of ids
  heap,        \* PriorityQueue.heap: a sequence of ids (index 0 of the code is heap[1])
  constructed, \* TRUE once new PriorityQueue(tasks) has run
  result,      \* value returned by the last extractMax (undefined or an id), NoCall when the last operation was another one
  drained,     \* ids returned by the extractMax calls made since the last other heap operation
  now,         \* clock readings (new Date()) taken by the last engine call
  out,         \* record describing the last call of an engine function and its return value, or the last updatePriority call that found no task
  history,     \* completion history records: the array given to an engine function, or the rows of completion_history
  req          \* the completeTask calls in flight: a bag of records holding the position and the local variables of a call

vars == <<task, tasks, heap, constructed, result, drained, now, out, history, req>>

-----------------------------------------------------------------------------
(* Bounds of the model *)

\* length of the task array given to the constructor in the construction
\* specification
MaxInput == 3

\* number of tasks in the array given to detectConflicts and rescheduleTask
MaxScheduleTasks == 3

\* number of tasks in the array given to calculateAnalytics
MaxAnalyticsTasks == 3

\* number of task objects in the heap specification
MaxHeapTasks == 3

\* number of completion history records given to calculateAnalytics
MaxAnalyticsHistory == 2

\* length of the task array given to generateRecommendations
MaxRecommendTasks == 5

\* number of completion history records given to generateRecommendations
MaxRecentHistory == 3

\* number of rows of the tasks table in the storage specification
MaxStoredTasks == 2

\* number of rows of the completion_history table in the storage specification
MaxHistoryRecords == 2

\* number of completion history records in the trend specification
MaxTrendHistory == 2

\* number of tasks in the ordering specification
MaxOrderTasks == 3

\* number of task objects in the queue specification
MaxQueueTasks == 3

\* number of rows of the tasks table in the reschedule specification
MaxRescheduleTasks == 2

\* number of POST /api/tasks/:id/reschedule requests in the reschedule specification
MaxRescheduleRequests == 2

-----------------------------------------------------------------------------
(* Time arithmetic on <<hi, lo>> pairs *)

Base == 1000000000

Norm(hi, lo) == <<hi + (lo \div Base), lo % Base>>

BigAdd(a, b) == Norm(a[1] + b[1], a[2] + b[2])

BigSub(a, b) == Norm(a[1] - b[1], a[2] - b[2])

BigLt(a, b) == a[1] < b[1] \/ (a[1] = b[1] /\ a[2] < b[2])

BigLe(a, b) == a = b \/ BigLt(a, b)

\* 2^53 = 9007199254740992: above it a double holds only even integers
TwoPow53 == <<9007199, 254740992>>

\* IEEE-754 round-to-nearest-even of an integer v with |v| < 2^54
ToDouble(v) ==
  IF BigLt(TwoPow53, v) /\ v[2] % 2 = 1
    THEN (IF (v[2] - 1) % 4 = 0 THEN BigSub(v, <<0, 1>>) ELSE BigAdd(v, <<0, 1>>))
    ELSE v

\* estimatedDuration * 60000 and the 60000 of rescheduleTask
MsPerMinute == 60000

Minutes(m) == Norm(0, m * MsPerMinute)

-----------------------------------------------------------------------------
(* Scoring *)

PRIORITY_VALUES(p) ==
  CASE p = "high" -> 3
    [] p = "medium" -> 2
    [] p = "low" -> 1
    [] OTHER -> 0

\* 1e15 = 1000000 * Base
KHi == 1000000

getTaskPriority(t) ==
  ToDouble(BigSub(<<PRIORITY_VALUES(t.priority) * KHi, 0>>, t.deadline))

-----------------------------------------------------------------------------
(* Heap algorithms: tk is the object store, h the heap array *)

Swap(h, i, j) == [h EXCEPT ![i + 1] = h[j + 1], ![j + 1] = h[i + 1]]

score(tk, h, i) == getTaskPriority(tk[h[i + 1]])

RECURSIVE heapifyDown(_, _, _)
heapifyDown(tk, h, index) ==
  LET length == Len(h)
      left == 2 * index + 1
      right == 2 * index + 2
      l1 == IF left < length /\ BigLt(score(tk, h, index), score(tk, h, left))
              THEN left ELSE index
      largest == IF right < length /\ BigLt(score(tk, h, l1), score(tk, h, right))
                   THEN right ELSE l1
  IN IF largest # index
       THEN heapifyDown(tk, Swap(h, index, largest), largest)
       ELSE h

RECURSIVE heapifyUp(_, _, _)
heapifyUp(tk, h, index) ==
  IF index > 0
    THEN LET parent == (index - 1) \div 2
         IN IF BigLe(score(tk, h, index), score(tk, h, parent))
              THEN h
              ELSE heapifyUp(tk, Swap(h, index, parent), parent)
    ELSE h

RECURSIVE buildFrom(_, _, _)
buildFrom(tk, h, i) ==
  IF i >= 0 THEN buildFrom(tk, heapifyDown(tk, h, i), i - 1) ELSE h

buildMaxHeap(tk, h) == buildFrom(tk, h, (Len(h) \div 2) - 1)

\* a filter that drops completed tasks only
RECURSIVE filterPending_notCompleted(_, _)
filterPending_notCompleted(tk, s) ==
  IF s = <<>> THEN <<>>
  ELSE IF tk[Head(s)].status # "completed"
         THEN <<Head(s)>> \o filterPending_notCompleted(tk, Tail(s))
         ELSE filterPending_notCompleted(tk, Tail(s))

\* tasks.filter((t) => t.status === "pending")
RECURSIVE filterPending(_, _)
filterPending(tk, s) ==
  IF s = <<>> THEN <<>>
  ELSE IF tk[Head(s)].status = "pending"
         THEN <<Head(s)>> \o filterPending(tk, Tail(s))
         ELSE filterPending(tk, Tail(s))

construct(tk, s) == buildMaxHeap(tk, filterPending(tk, s))

\* insert that stores the task in the last slot in use
insert_overwriteLast(tk, h, id) ==
  IF h = <<>> THEN <<id>> ELSE heapifyUp(tk, [h EXCEPT ![Len(h)] = id], Len(h) - 1)

insert(tk, h, id) == heapifyUp(tk, Append(h, id), Len(h))

\* the absent result of extractMax; task ids are positive
undefined == 0

\* value of result when the last heap operation was not extractMax
NoCall == undefined - 1

\* extractMax without the test for an empty heap: heap[0] = heap.pop() stores
\* undefined at the root
extractMax_noEmptyTest(tk, h) ==
  IF Len(h) = 0 THEN <<undefined, <<undefined>>>>
  ELSE IF Len(h) = 1 THEN <<h[1], <<>>>>
  ELSE <<h[1], heapifyDown(tk, [SubSeq(h, 1, Len(h) - 1) EXCEPT ![1] = h[Len(h)]], 0)>>

\* extractMax that moves the last task to the root and does not sink it
extractMax_noSink(tk, h) ==
  IF Len(h) = 0 THEN <<undefined, h>>
  ELSE IF Len(h) = 1 THEN <<h[1], <<>>>>
  ELSE <<h[1], [SubSeq(h, 1, Len(h) - 1) EXCEPT ![1] = h[Len(h)]]>>

\* <<returned value, heap afterwards>>
extractMax(tk, h) ==
  IF Len(h) = 0 THEN <<undefined, h>>
  ELSE IF Len(h) = 1 THEN <<h[1], <<>>>>
  ELSE <<h[1], heapifyDown(tk, [SubSeq(h, 1, Len(h) - 1) EXCEPT ![1] = h[Len(h)]], 0)>>

\* a search that answers the last index when no task has the id
findIndex_lastWhenAbsent(h, taskId) ==
  IF \E i \in 1..Len(h) : h[i] = taskId
    THEN (CHOOSE i \in 1..Len(h) : h[i] = taskId /\ \A j \in 1..(i - 1) : h[j] # taskId) - 1
    ELSE Len(h) - 1

\* heap.findIndex((t) => t.id === taskId): 0-based, -1 when absent
findIndex(h, taskId) ==
  IF \E i \in 1..Len(h) : h[i] = taskId
    THEN (CHOOSE i \in 1..Len(h) : h[i] = taskId /\ \A j \in 1..(i - 1) : h[j] # taskId) - 1
    ELSE -1

\* updatePriority that writes the priority of the task at the root
updatePriority_ofRoot(tk, h, taskId, newPriority) ==
  LET index == findIndex(h, taskId)
  IN IF index = -1 THEN <<tk, h>>
     ELSE LET oldPriority == getTaskPriority(tk[h[1]])
              tk2 == [tk EXCEPT ![h[1]].priority = newPriority]
              newPriorityValue == getTaskPriority(tk2[h[1]])
          IN IF BigLt(oldPriority, newPriorityValue)
               THEN <<tk2, heapifyUp(tk2, h, 0)>>
               ELSE <<tk2, heapifyDown(tk2, h, 0)>>

\* updatePriority that swims the task whatever the direction of the change
updatePriority_alwaysUp(tk, h, taskId, newPriority) ==
  LET index == findIndex(h, taskId)
  IN IF index = -1 THEN <<tk, h>>
     ELSE LET tk2 == [tk EXCEPT ![h[index + 1]].priority = newPriority]
          IN <<tk2, heapifyUp(tk2, h, index)>>

\* <<object store afterwards, heap afterwards>>
updatePriority(tk, h, taskId, newPriority) ==
  LET index == findIndex(h, taskId)
  IN IF index = -1 THEN <<tk, h>>
     ELSE LET oldPriority == getTaskPriority(tk[h[index + 1]])
              tk2 == [tk EXCEPT ![h[index + 1]].priority = newPriority]
              newPriorityValue == getTaskPriority(tk2[h[index + 1]])
          IN IF BigLt(oldPriority, newPriorityValue)
               THEN <<tk2, heapifyUp(tk2, h, index)>>
               ELSE <<tk2, heapifyDown(tk2, h, index)>>

getTasks == heap

size == Len(heap)

-----------------------------------------------------------------------------
(* detectConflicts: tk is the object store, s the task array *)

\* the overlap test that also counts intervals that only touch
overlaps_touching(t1, t2) ==
  LET start1 == BigSub(t1.deadline, Minutes(t1.estimatedDuration))
      end1 == t1.deadline
      start2 == BigSub(t2.deadline, Minutes(t2.estimatedDuration))
      end2 == t2.deadline
  IN \/ (BigLe(start1, end2) /\ BigLe(start2, end1))
     \/ (BigLe(start2, end1) /\ BigLe(start1, end2))

\* an overlap test that asks only whether the second interval starts inside
\* the first
overlaps_startsWithin(t1, t2) ==
  LET start1 == BigSub(t1.deadline, Minutes(t1.estimatedDuration))
      end1 == t1.deadline
      start2 == BigSub(t2.deadline, Minutes(t2.estimatedDuration))
  IN BigLe(start1, start2) /\ BigLt(start2, end1)

\* the condition of the if statement at lines 171-174
overlaps(t1, t2) ==
  LET start1 == BigSub(t1.deadline, Minutes(t1.estimatedDuration))
      end1 == t1.deadline
      start2 == BigSub(t2.deadline, Minutes(t2.estimatedDuration))
      end2 == t2.deadline
  IN \/ (BigLt(start1, end2) /\ BigLt(start2, end1))
     \/ (BigLt(start2, end1) /\ BigLt(start1, end2))

\* the comparison with >= in place of >
priorityGreater_orEqual(p1, p2) ==
  /\ p1 \in {"high", "medium", "low"}
  /\ p2 \in {"high", "medium", "low"}
  /\ PRIORITY_VALUES(p1) >= PRIORITY_VALUES(p2)

\* PRIORITY_VALUES[task1.priority] > PRIORITY_VALUES[task2.priority]: the
\* lookup of a priority outside the table is undefined and compares false
priorityGreater(p1, p2) ==
  /\ p1 \in {"high", "medium", "low"}
  /\ p2 \in {"high", "medium", "low"}
  /\ PRIORITY_VALUES(p1) > PRIORITY_VALUES(p2)

\* if (!conflicts.find((t) => t.id === id)) conflicts.push(task)
pushOnce(conflicts, id) ==
  IF \E k \in 1..Len(conflicts) : conflicts[k] = id THEN conflicts ELSE Append(conflicts, id)

\* the two nested loops over pendingTasks, i and j 0-based as in the code;
\* a recommendation string is the record of the two tasks it names
RECURSIVE conflictLoop(_, _, _, _, _)
conflictLoop(tk, pendingTasks, i, j, acc) ==
  IF i >= Len(pendingTasks) THEN acc
  ELSE IF j >= Len(pendingTasks) THEN conflictLoop(tk, pendingTasks, i + 1, i + 2, acc)
  ELSE LET id1 == pendingTasks[i + 1]
           id2 == pendingTasks[j + 1]
           task1 == tk[id1]
           task2 == tk[id2]
       IN IF overlaps(task1, task2)
            THEN conflictLoop(tk, pendingTasks, i, j + 1,
                   [conflicts |-> pushOnce(pushOnce(acc.conflicts, id1), id2),
                    recommendations |->
                      Append(acc.recommendations,
                        IF priorityGreater(task1.priority, task2.priority)
                          THEN [reschedule |-> id2, priority |-> task2.priority, higher |-> id1]
                          ELSE [reschedule |-> id1, priority |-> task1.priority, higher |-> id2])])
            ELSE conflictLoop(tk, pendingTasks, i, j + 1, acc)

detectConflicts(tk, s) ==
  LET r == conflictLoop(tk, filterPending(tk, s), 0, 1,
                        [conflicts |-> <<>>, recommendations |-> <<>>])
  IN [hasConflict |-> Len(r.conflicts) > 0,
      conflictingTasks |-> r.conflicts,
      recommendations |-> r.recommendations]

-----------------------------------------------------------------------------
(* rescheduleTask *)

\* allTasks.filter((t) => t.id !== task.id && t.status === "pending")
RECURSIVE filterOthersPending(_, _, _)
filterOthersPending(tk, s, taskId) ==
  IF s = <<>> THEN <<>>
  ELSE IF Head(s) # taskId /\ tk[Head(s)].status = "pending"
         THEN <<Head(s)>> \o filterOthersPending(tk, Tail(s), taskId)
         ELSE filterOthersPending(tk, Tail(s), taskId)

\* Array.prototype.sort is stable: x goes after every element whose
\* deadline is not later than its own
RECURSIVE insertSorted(_, _, _)
insertSorted(tk, sorted, x) ==
  IF sorted = <<>> THEN <<x>>
  ELSE IF BigLt(tk[x].deadline, tk[Head(sorted)].deadline)
         THEN <<x>> \o sorted
         ELSE <<Head(sorted)>> \o insertSorted(tk, Tail(sorted), x)

RECURSIVE sortIds(_, _, _)
sortIds(tk, s, sorted) ==
  IF s = <<>> THEN sorted ELSE sortIds(tk, Tail(s), insertSorted(tk, sorted, Head(s)))

\* a sort that leaves the array as it is
deadlineSort_none(tk, s) == s

\* .sort((a, b) => a.deadline - b.deadline)
deadlineSort(tk, s) == sortIds(tk, s, <<>>)

\* a sort of the pending tasks only
sortByDeadline_pendingOnly(tk, s) == deadlineSort(tk, filterPending(tk, s))

\* sortByDeadline: [...tasks].sort((a, b) => a.deadline - b.deadline), the
\* copy being the array of ids that is returned
sortByDeadline(tk, s) == deadlineSort(tk, s)

\* the for loop over sortedTasks; pushedBy is the id of the task of the
\* last assignment to proposedTime (undefined when there was none)
RECURSIVE rescheduleLoop(_, _, _, _)
rescheduleLoop(tk, sortedTasks, taskDuration, acc) ==
  IF sortedTasks = <<>> THEN acc
  ELSE LET existingTask == tk[Head(sortedTasks)]
           existingStart == BigSub(existingTask.deadline, Minutes(existingTask.estimatedDuration))
           existingEnd == existingTask.deadline
       IN IF /\ BigLt(acc.proposedTime, existingEnd)
             /\ BigLt(existingStart, BigAdd(acc.proposedTime, taskDuration))
            THEN rescheduleLoop(tk, Tail(sortedTasks), taskDuration,
                   [proposedTime |-> BigAdd(existingEnd, <<0, MsPerMinute>>),
                    pushedBy |-> Head(sortedTasks)])
            ELSE rescheduleLoop(tk, Tail(sortedTasks), taskDuration, acc)

\* a scan whose first proposal is the slot that ends at the deadline
rescheduleScan_endsAtDeadline(tk, s, taskId, t) ==
  rescheduleLoop(tk, deadlineSort(tk, filterOthersPending(tk, s, taskId)),
                 Minutes(t.estimatedDuration),
                 [proposedTime |-> BigSub(t.deadline, Minutes(t.estimatedDuration)),
                  pushedBy |-> undefined])

rescheduleScan(tk, s, taskId, t) ==
  rescheduleLoop(tk, deadlineSort(tk, filterOthersPending(tk, s, taskId)),
                 Minutes(t.estimatedDuration),
                 [proposedTime |-> t.deadline, pushedBy |-> undefined])

\* rescheduleTask that returns proposedTime itself
rescheduleTask_noDuration(tk, s, taskId, t) ==
  rescheduleScan(tk, s, taskId, t).proposedTime

\* taskId and t are the id and the fields of the task argument
rescheduleTask(tk, s, taskId, t) ==
  BigAdd(rescheduleScan(tk, s, taskId, t).proposedTime, Minutes(t.estimatedDuration))

-----------------------------------------------------------------------------
(* calculateAnalytics: the counts.  clock lists the values of the new      *)
(* Date() evaluations in the order the two filters make them: the filters  *)
(* read the clock once for each task whose status is pending.              *)

\* 1-based position of s[i] among the pending tasks of s
pendingPos(tk, s, i) == Cardinality({k \in 1..i : tk[s[k]].status = "pending"})

\* the overdue test with <= in place of <
isOverdue_inclusive(t, reading) ==
  \/ t.status = "overdue"
  \/ (t.status = "pending" /\ BigLe(t.deadline, reading))

isOverdue(t, reading) ==
  \/ t.status = "overdue"
  \/ (t.status = "pending" /\ BigLt(t.deadline, reading))

\* the pending test with > in place of >=
isPending_strict(t, reading) ==
  t.status = "pending" /\ BigLt(reading, t.deadline)

isPending(t, reading) ==
  t.status = "pending" /\ ~BigLt(t.deadline, reading)

\* array positions each filter keeps
analyticsBuckets(tk, s, clock) ==
  LET p == pendingPos(tk, s, Len(s))
      \* the reading is used only when the status is pending
      read(k) == IF k \in 1..Len(clock) THEN clock[k] ELSE <<0, 0>>
  IN [completed |-> {i \in 1..Len(s) : tk[s[i]].status = "completed"},
      overdue |-> {i \in 1..Len(s) : isOverdue(tk[s[i]], read(pendingPos(tk, s, i)))},
      pending |-> {i \in 1..Len(s) : isPending(tk[s[i]], read(p + pendingPos(tk, s, i)))}]

Priorities == {"high", "medium", "low"}

Statuses == {"pending", "completed", "overdue"}

\* actualDuration of a history record that has none
null == -1

(* The rates are JavaScript numbers.  A rate is kept as the exact fraction *)
(* <<n, d>> of the value the code computes; the rounding of a division or  *)
(* a product is monotone, so a bound that is itself a double (0, 100)      *)
(* holds for the rounded value exactly when it holds for the fraction.     *)
(* <<0, 0>> stands for NaN.                                                *)
RatLe(a, b) == a[2] > 0 /\ b[2] > 0 /\ a[1] * b[2] <= b[1] * a[2]

RatEq(a, b) == a[2] > 0 /\ b[2] > 0 /\ a[1] * b[2] = b[1] * a[2]

RatOf(n) == <<n, 1>>

Max(a, b) == IF a >= b THEN a ELSE b

RECURSIVE Sum(_)
Sum(s) == IF s = <<>> THEN 0 ELSE Head(s) + Sum(Tail(s))

\* the rate without the totalTasks > 0 test: 0 / 0 for an empty task array
completionRate_noGuard(totalTasks, completedTasks) ==
  <<completedTasks * 100, totalTasks>>

completionRate(totalTasks, completedTasks) ==
  IF totalTasks > 0 THEN <<completedTasks * 100, totalTasks>> ELSE RatOf(0)

durations(hist) ==
  LET all == [k \in 1..Len(hist) |-> hist[k].actualDuration]
  IN SelectSeq(all, LAMBDA d : d # null)

averageCompletionTime(hist) ==
  IF Len(durations(hist)) > 0
  THEN <<Sum(durations(hist)), Len(durations(hist))>>
  ELSE RatOf(0)

productivityScore(totalTasks, completedTasks, overdueTasks) ==
  LET rate == completionRate(totalTasks, completedTasks)
      m == Max(totalTasks, 1)
  IN <<rate[1] * (m - overdueTasks) * 100, rate[2] * m>>

tasksByPriority(tk, s) ==
  [p \in Priorities |-> Cardinality({i \in 1..Len(s) : tk[s[i]].priority = p})]

\* k days of 24 hours
Days(k) == Norm(0, k * 86400000)

(* date.toISOString().split("T")[0]: the UTC calendar date, as the number  *)
(* of days since 1970-01-01.  Base = 11 * 86400000 + 496 * 100000 and      *)
(* 86400000 = 864 * 100000.                                                *)
toISODate(v) == v[1] * 11 + ((v[1] * 496 + (v[2] \div 100000)) \div 864)

(* last7Days: entry i (i = 0..6 in the code, 1..7 here) is computed from   *)
(* its own new Date().  setDate works on the local calendar; the local     *)
(* zone is one with a fixed offset from UTC, where going back a calendar   *)
(* day is going back 24 hours.                                             *)
last7Days(days) == [i \in 1..7 |-> toISODate(BigSub(days[i], Days(7 - i)))]

completionTrend(hist, days) ==
  [i \in 1..7 |->
     LET date == last7Days(days)[i]
         dayHistory == {k \in 1..Len(hist) : toISODate(hist[k].completedAt) = date}
     IN [date |-> date,
         completed |-> Cardinality({k \in dayHistory : ~hist[k].wasOverdue}),
         overdue |-> Cardinality({k \in dayHistory : hist[k].wasOverdue})]]

(* clock lists the readings of the whole call: the two filters first, then *)
(* the seven of last7Days.                                                 *)
calculateAnalytics(tk, s, hist, clock) ==
  LET b == analyticsBuckets(tk, s, clock)
      p == pendingPos(tk, s, Len(s))
      totalTasks == Len(s)
      completedTasks == Cardinality(b.completed)
      overdueTasks == Cardinality(b.overdue)
  IN [totalTasks |-> totalTasks,
      completedTasks |-> completedTasks,
      overdueTasks |-> overdueTasks,
      pendingTasks |-> Cardinality(b.pending),
      completionRate |-> completionRate(totalTasks, completedTasks),
      averageCompletionTime |-> averageCompletionTime(hist),
      productivityScore |-> productivityScore(totalTasks, completedTasks, overdueTasks),
      tasksByPriority |-> tasksByPriority(tk, s),
      completionTrend |-> completionTrend(hist, SubSeq(clock, 2 * p + 1, 2 * p + 7))]

-----------------------------------------------------------------------------
(* generateRecommendations.  clock lists the Date.now() readings of the    *)
(* call: one for each history record, then one for each pending task.  A   *)
(* difference of two times is an integer number of milliseconds, so        *)
(* hours <= 2 is difference <= 2 hours, and likewise for 24 and 0.         *)

Hours(h) == Minutes(60 * h)

\* array.slice(0, n)
slice(s, n) == SubSeq(s, 1, IF Len(s) < n THEN Len(s) ELSE n)

\* positions of the history records the first filter keeps
recentCompletions(hist, clock) ==
  {k \in 1..Len(hist) : BigLe(BigSub(clock[k], hist[k].completedAt), Hours(2))}

highPriorityTasks(tk, s) ==
  SelectSeq(filterPending(tk, s), LAMBDA id : tk[id].priority = "high")

\* hoursUntil <= 24 && hoursUntil > 0 for the deadline and a reading
dueSoon(deadline, reading) ==
  /\ BigLe(BigSub(deadline, reading), Hours(24))
  /\ BigLt(<<0, 0>>, BigSub(deadline, reading))

\* readings holds the readings of the second filter
upcomingDeadlines(tk, s, readings) ==
  LET pendingTasks == filterPending(tk, s)
      kept == {j \in 1..Len(pendingTasks) : dueSoon(tk[pendingTasks[j]].deadline, readings[j])}
      RECURSIVE keep(_)
      keep(j) == IF j = 0 THEN <<>>
                 ELSE IF j \in kept THEN Append(keep(j - 1), pendingTasks[j])
                 ELSE keep(j - 1)
  IN keep(Len(pendingTasks))

breakRule(hist, clock) ==
  LET totalMinutesWorked == Cardinality(recentCompletions(hist, clock)) * 30
  IN IF totalMinutesWorked >= 90
       THEN <<[type |-> "break", severity |-> "info", relatedTasks |-> <<>>,
               count |-> totalMinutesWorked]>>
       ELSE <<>>

workloadRule(tk, s) ==
  IF Len(highPriorityTasks(tk, s)) >= 5
    THEN <<[type |-> "workload", severity |-> "warning",
            relatedTasks |-> slice(highPriorityTasks(tk, s), 3),
            count |-> Len(highPriorityTasks(tk, s))]>>
    ELSE <<>>

\* the deadline rule with relatedTasks cut to three ids, as the other rules do
deadlineRule_sliced(tk, s, readings) ==
  LET upcoming == upcomingDeadlines(tk, s, readings)
  IN IF Len(upcoming) > 0
       THEN <<[type |-> "deadline",
               severity |-> IF Len(upcoming) > 3 THEN "critical" ELSE "warning",
               relatedTasks |-> slice(upcoming, 3),
               count |-> Len(upcoming)]>>
       ELSE <<>>

deadlineRule(tk, s, readings) ==
  LET upcoming == upcomingDeadlines(tk, s, readings)
  IN IF Len(upcoming) > 0
       THEN <<[type |-> "deadline",
               severity |-> IF Len(upcoming) > 3 THEN "critical" ELSE "warning",
               relatedTasks |-> upcoming,
               count |-> Len(upcoming)]>>
       ELSE <<>>

rescheduleRule(tk, s) ==
  LET conflicts == detectConflicts(tk, s)
  IN IF conflicts.hasConflict
       THEN <<[type |-> "reschedule", severity |-> "warning",
               relatedTasks |-> slice(conflicts.conflictingTasks, 3),
               count |-> Len(conflicts.conflictingTasks)]>>
       ELSE <<>>

\* the rules as an if / else-if chain: the first that fires is the only one
generateRecommendations_firstOnly(tk, s, hist, clock) ==
  LET readings == SubSeq(clock, Len(hist) + 1, Len(clock))
  IN IF breakRule(hist, clock) # <<>> THEN breakRule(hist, clock)
     ELSE IF workloadRule(tk, s) # <<>> THEN workloadRule(tk, s)
     ELSE IF deadlineRule(tk, s, readings) # <<>> THEN deadlineRule(tk, s, readings)
     ELSE rescheduleRule(tk, s)

\* the recommendations array; count is the number the message shows
generateRecommendations(tk, s, hist, clock) ==
  LET readings == SubSeq(clock, Len(hist) + 1, Len(clock))
  IN breakRule(hist, clock) \o workloadRule(tk, s)
       \o deadlineRule(tk, s, readings) \o rescheduleRule(tk, s)

-----------------------------------------------------------------------------
(* Input domains *)

\* 2023-11-14T22:13:20Z = 1700000000000 ms
T0 == <<1700, 0>>

\* a deadline 2.5e15 ms after the epoch (a valid Date: |ms| <= 8.64e15)
FarDeadline == <<2500000, 0>>

HeapDeadlines == {T0, BigAdd(T0, Minutes(30)), FarDeadline}

HeapTask == [priority : Priorities, deadline : HeapDeadlines,
             estimatedDuration : {60}, status : {"pending"}]

RECURSIVE Iota(_)
Iota(n) == IF n = 0 THEN <<>> ELSE Append(Iota(n - 1), n)

Range(s) == {s[i] : i \in 1..Len(s)}

NoOut == [op |-> "none"]

-----------------------------------------------------------------------------
(* Heap specification: new PriorityQueue(tasks), insert, extractMax,       *)
(* updatePriority on task objects with unique ids                          *)

InitHeap ==
  /\ task \in [1..MaxHeapTasks -> HeapTask]
  /\ tasks = Iota(MaxHeapTasks)
  /\ heap = <<>>
  /\ constructed = FALSE
  /\ result = NoCall
  /\ drained = <<>>
  /\ now = <<>>
  /\ out = NoOut
  /\ history = <<>>
  /\ req = <<>>

Construct ==
  /\ heap' = construct(task, tasks)
  /\ constructed' = TRUE
  /\ result' = NoCall
  /\ drained' = <<>>
  /\ out' = NoOut
  /\ UNCHANGED <<task, tasks, now, history, req>>

Insert ==
  /\ constructed
  /\ \E id \in DOMAIN task :
       /\ id \notin Range(heap)
       /\ heap' = insert(task, heap, id)
  /\ result' = NoCall
  /\ drained' = <<>>
  /\ out' = NoOut
  /\ UNCHANGED <<task, tasks, constructed, now, history, req>>

ExtractMax ==
  /\ constructed
  /\ LET r == extractMax(task, heap)
     IN /\ result' = r[1]
        /\ heap' = r[2]
        /\ drained' = IF r[1] = undefined THEN drained ELSE Append(drained, r[1])
  /\ out' = NoOut
  /\ UNCHANGED <<task, tasks, constructed, now, history, req>>

\* taskId is the id of a task object or an id no task has; out records the
\* calls whose taskId is the id of no task in the heap
UpdatePriority ==
  /\ constructed
  /\ \E taskId \in DOMAIN task \cup {Len(tasks) + 1}, newPriority \in Priorities :
       LET r == updatePriority(task, heap, taskId, newPriority)
       IN /\ task' = r[1]
          /\ heap' = r[2]
          /\ out' = IF taskId \in Range(heap)
                      THEN NoOut
                      ELSE [op |-> "updatePriority", found |-> FALSE]
  /\ result' = NoCall
  /\ drained' = <<>>
  /\ UNCHANGED <<tasks, constructed, now, history, req>>

NextHeap == Construct \/ Insert \/ ExtractMax \/ UpdatePriority

SpecHeap == InitHeap /\ [][NextHeap]_vars

-----------------------------------------------------------------------------
(* C1: after Construct and any sequence of Insert / ExtractMax /           *)
(* UpdatePriority, every node's score is >= the score of each child that   *)
(* exists.                                                                 *)

IsMaxHeap(tk, h) ==
  \A i \in 0..(Len(h) - 1) : \A c \in {2 * i + 1, 2 * i + 2} :
    c < Len(h) => BigLe(score(tk, h, c), score(tk, h, i))

HeapInvariant == constructed => IsMaxHeap(task, heap)

\* a full heap whose root strictly outranks both children and which is not
\* in input order: sinks or swims have moved tasks
HeapInvariantWitness ==
  /\ constructed
  /\ Len(heap) = 3
  /\ heap # tasks
  /\ BigLt(score(task, heap, 1), score(task, heap, 0))
  /\ BigLt(score(task, heap, 2), score(task, heap, 0))
  /\ \E id \in DOMAIN task : task[id].priority # "high"

-----------------------------------------------------------------------------
(* C2: the tasks returned by consecutive ExtractMax calls (no other heap   *)
(* operation in between) come in non-increasing order of score.            *)

ExtractionOrder ==
  \A i \in 1..(Len(drained) - 1) :
    BigLe(getTaskPriority(task[drained[i + 1]]), getTaskPriority(task[drained[i]]))

\* a heap of three tasks with three different scores drained completely
ExtractionOrderWitness ==
  /\ Len(drained) = 3
  /\ heap = <<>>
  /\ BigLt(getTaskPriority(task[drained[2]]), getTaskPriority(task[drained[1]]))
  /\ BigLt(getTaskPriority(task[drained[3]]), getTaskPriority(task[drained[2]]))

-----------------------------------------------------------------------------
(* C3: whenever the heap holds at least one task of priority high, the     *)
(* task the next ExtractMax returns has priority high, whatever the        *)
(* deadlines are.                                                          *)

HasHigh(tk, h) == \E i \in 1..Len(h) : tk[h[i]].priority = "high"

HighExtractedFirst ==
  (constructed /\ HasHigh(task, heap)) =>
    task[extractMax(task, heap)[1]].priority = "high"

-----------------------------------------------------------------------------
(* Scoring specification: getTaskPriority applied to two tasks a = task[1] *)
(* and b = task[2]                                                         *)

\* smallest and largest time values of a JavaScript Date: -+8.64e15 ms
MinDate == <<-8640000, 0>>

MaxDate == <<8640000, 0>>

\* 1e15 ms after the epoch
KDeadline == <<KHi, 0>>

ScoreDeadlines ==
  {MinDate, BigAdd(MinDate, <<0, 1>>), <<0, 0>>, T0, BigAdd(T0, <<0, 1>>),
   KDeadline, FarDeadline, MaxDate}

\* priority is a varchar(10) column: "urgent" stands for any value other
\* than high, medium, low
ScoreTask == [priority : Priorities \cup {"urgent"}, deadline : ScoreDeadlines,
              estimatedDuration : {60}, status : {"pending"}]

InitScore ==
  /\ task \in [1..2 -> ScoreTask]
  /\ tasks = <<1, 2>>
  /\ heap = <<>>
  /\ constructed = FALSE
  /\ result = NoCall
  /\ drained = <<>>
  /\ now = <<>>
  /\ out = NoOut
  /\ history = <<>>
  /\ req = <<>>

GetTaskPriority ==
  /\ out = NoOut
  /\ out' = [op |-> "getTaskPriority",
             a |-> getTaskPriority(task[1]),
             b |-> getTaskPriority(task[2])]
  /\ UNCHANGED <<task, tasks, heap, constructed, result, drained, now, history, req>>

NextScore == GetTaskPriority

SpecScore == InitScore /\ [][NextScore]_vars

-----------------------------------------------------------------------------
(* C4: the score orders tasks lexicographically for every representable    *)
(* deadline: score(a) > score(b) iff weight(a) > weight(b), or the weights *)
(* are equal and deadline(a) < deadline(b); weights high 3, medium 2,      *)
(* low 1, anything else 0.                                                 *)

LexBefore(a, b) ==
  \/ PRIORITY_VALUES(a.priority) > PRIORITY_VALUES(b.priority)
  \/ /\ PRIORITY_VALUES(a.priority) = PRIORITY_VALUES(b.priority)
     /\ BigLt(a.deadline, b.deadline)

ScoreIsLexicographic ==
  out.op = "getTaskPriority" =>
    (BigLt(out.b, out.a) <=> LexBefore(task[1], task[2]))

-----------------------------------------------------------------------------
(* Construction specification: new PriorityQueue(tasks) on arrays holding  *)
(* tasks of every status, then extractMax calls only                       *)

ConstructTask == [priority : Priorities, deadline : {T0, FarDeadline},
                  estimatedDuration : {60}, status : Statuses]

InitConstruct ==
  /\ task \in [1..MaxInput -> ConstructTask]
  /\ tasks = Iota(MaxInput)
  /\ heap = <<>>
  /\ constructed = FALSE
  /\ result = NoCall
  /\ drained = <<>>
  /\ now = <<>>
  /\ out = NoOut
  /\ history = <<>>
  /\ req = <<>>

NextConstruct == Construct \/ ExtractMax

SpecConstruct == InitConstruct /\ [][NextConstruct]_vars

-----------------------------------------------------------------------------
(* C5: Construct(tasks) followed by ExtractMax until empty returns exactly *)
(* the pending tasks of the input, in the order of the sort by priority    *)
(* (high, medium, low) then deadline ascending, up to the order of tasks   *)
(* the sort does not distinguish.                                          *)

\* the comparator of the heap visualisation's sort is negative for (a, b)
priorityThenDeadline(a, b) ==
  LET aPriority == PRIORITY_VALUES(a.priority)
      bPriority == PRIORITY_VALUES(b.priority)
  IN IF aPriority # bPriority THEN bPriority - aPriority < 0
     ELSE BigLt(a.deadline, b.deadline)

\* the sequence s lists every element of the set S exactly once
IsPermutation(s, S) ==
  /\ Range(s) = S
  /\ Len(s) = Cardinality(S)

PendingInput == {id \in Range(tasks) : task[id].status = "pending"}

Drained == constructed /\ heap = <<>> /\ Len(drained) >= Cardinality(PendingInput)

ConstructDrainIsSort ==
  Drained =>
    /\ IsPermutation(drained, PendingInput)
    /\ \A i \in 1..Len(drained) : \A j \in (i + 1)..Len(drained) :
         ~priorityThenDeadline(task[drained[j]], task[drained[i]])

-----------------------------------------------------------------------------
(* C6: immediately after Construct(tasks), size() is the number of pending *)
(* input tasks, the snapshot is a permutation of them and no completed or  *)
(* overdue task is in the heap.                                            *)

JustConstructed == constructed /\ result = NoCall /\ drained = <<>>

ConstructKeepsPending ==
  JustConstructed =>
    /\ size = Cardinality(PendingInput)
    /\ IsPermutation(getTasks, PendingInput)
    /\ \A i \in 1..Len(getTasks) : task[getTasks[i]].status \notin {"completed", "overdue"}

\* an input mixing the three statuses, of which one pending task is kept
ConstructKeepsPendingWitness ==
  /\ JustConstructed
  /\ size = 1
  /\ \E id \in Range(tasks) : task[id].status = "completed"
  /\ \E id \in Range(tasks) : task[id].status = "overdue"

-----------------------------------------------------------------------------
(* Scheduling specification: detectConflicts(tasks) and                    *)
(* rescheduleTask(task, tasks) on arrays of tasks with unique ids          *)

ScheduleDeadlines == {T0, BigAdd(T0, Minutes(30)), BigAdd(T0, Minutes(120))}

ScheduleTask == [priority : {"high", "low"}, deadline : ScheduleDeadlines,
                 estimatedDuration : {30, 60}, status : {"pending", "completed"}]

InitSchedule ==
  /\ task \in [1..MaxScheduleTasks -> ScheduleTask]
  /\ tasks = Iota(MaxScheduleTasks)
  /\ heap = <<>>
  /\ constructed = FALSE
  /\ result = NoCall
  /\ drained = <<>>
  /\ now = <<>>
  /\ out = NoOut
  /\ history = <<>>
  /\ req = <<>>

DetectConflicts ==
  /\ out' = [op |-> "detectConflicts", value |-> detectConflicts(task, tasks)]
  /\ UNCHANGED <<task, tasks, heap, constructed, result, drained, now, history, req>>

RescheduleTask ==
  /\ \E taskId \in Range(tasks) :
       out' = [op |-> "rescheduleTask",
               task |-> taskId,
               value |-> rescheduleTask(task, tasks, taskId, task[taskId]),
               pushedBy |-> rescheduleScan(task, tasks, taskId, task[taskId]).pushedBy]
  /\ UNCHANGED <<task, tasks, heap, constructed, result, drained, now, history, req>>

NextSchedule == DetectConflicts \/ RescheduleTask

SpecSchedule == InitSchedule /\ [][NextSchedule]_vars

\* the interval [deadline - estimatedDuration minutes, deadline] of a task
\* ending at time d
startOf(t, d) == BigSub(d, Minutes(t.estimatedDuration))

\* intervals [s1, e1] and [s2, e2] overlap
IntervalsOverlap(s1, e1, s2, e2) == BigLt(s1, e2) /\ BigLt(s2, e1)

TasksOverlap(a, b) ==
  IntervalsOverlap(startOf(a, a.deadline), a.deadline, startOf(b, b.deadline), b.deadline)

PendingIds == {id \in Range(tasks) : task[id].status = "pending"}

-----------------------------------------------------------------------------
(* C7: conflictingTasks lists, exactly once each, the pending tasks whose  *)
(* interval overlaps the interval of another pending task; hasConflict is  *)
(* true iff the list is not empty; A(T, 60) and B(T + 30 min, 60)          *)
(* conflict, A(T, 30) and C(T + 2 h, 30) do not.                           *)

Conflicting == {a \in PendingIds : \E b \in PendingIds \ {a} : TasksOverlap(task[a], task[b])}

IsTask(id, d, dur) == task[id].deadline = d /\ task[id].estimatedDuration = dur

DetectConflictsExact ==
  out.op = "detectConflicts" =>
    /\ IsPermutation(out.value.conflictingTasks, Conflicting)
    /\ out.value.hasConflict <=> (out.value.conflictingTasks # <<>>)
    /\ \A a, b \in PendingIds :
         (IsTask(a, T0, 60) /\ IsTask(b, BigAdd(T0, Minutes(30)), 60)) =>
           /\ out.value.hasConflict
           /\ {a, b} \subseteq Range(out.value.conflictingTasks)
    /\ \A a, c \in PendingIds :
         (/\ PendingIds = {a, c}
          /\ IsTask(a, T0, 30)
          /\ IsTask(c, BigAdd(T0, Minutes(120)), 30)) => ~out.value.hasConflict

\* three pending tasks that overlap pairwise: each is met by two overlapping
\* pairs and listed once
DetectConflictsExactWitness ==
  /\ out.op = "detectConflicts"
  /\ Cardinality(PendingIds) = 3
  /\ Len(out.value.conflictingTasks) = 3
  /\ Len(out.value.recommendations) = 3

-----------------------------------------------------------------------------
(* C8: with D = rescheduleTask(task, allTasks), the interval               *)
(* [D - estimatedDuration, D] of the target overlaps the interval of no    *)
(* other pending task of allTasks.                                         *)

RescheduleFeasible ==
  out.op = "rescheduleTask" =>
    \A e \in PendingIds \ {out.task} :
      ~IntervalsOverlap(startOf(task[out.task], out.value), out.value,
                        startOf(task[e], task[e].deadline), task[e].deadline)

\* the proposal was pushed past a task although a pending task with an
\* earlier deadline had been scanned before it without a push
RescheduleFeasibleWitness ==
  /\ out.op = "rescheduleTask"
  /\ out.pushedBy # undefined
  /\ \E e \in PendingIds \ {out.task, out.pushedBy} :
       /\ BigLt(task[e].deadline, task[out.pushedBy].deadline)
       /\ ~TasksOverlap(task[e], task[out.pushedBy])

-----------------------------------------------------------------------------
(* C9 as stated: the result is the task's current deadline when            *)
(* [deadline - duration, deadline] overlaps no other pending task, and     *)
(* otherwise existing.deadline + 1 minute for the last task that pushed    *)
(* the proposal.                                                           *)

OverlapsNoOther(id) ==
  \A e \in PendingIds \ {id} : ~TasksOverlap(task[id], task[e])

RescheduleResultAsStated ==
  out.op = "rescheduleTask" =>
    IF OverlapsNoOther(out.task)
      THEN out.value = task[out.task].deadline
      ELSE /\ out.pushedBy # undefined
           /\ out.value = BigAdd(task[out.pushedBy].deadline, Minutes(1))

(* C9 amended: the proposal is a start time that begins at the current     *)
(* deadline, and the result is the proposal plus the task's duration: it   *)
(* is deadline + estimatedDuration when [deadline, deadline + duration]    *)
(* overlaps no other pending task, and otherwise existing.deadline +       *)
(* 1 minute + estimatedDuration for the last task that pushed the          *)
(* proposal.                                                               *)

SlotAfterDeadlineFree(id) ==
  \A e \in PendingIds \ {id} :
    ~IntervalsOverlap(task[id].deadline,
                      BigAdd(task[id].deadline, Minutes(task[id].estimatedDuration)),
                      startOf(task[e], task[e].deadline), task[e].deadline)

RescheduleResult ==
  out.op = "rescheduleTask" =>
    IF SlotAfterDeadlineFree(out.task)
      THEN /\ out.pushedBy = undefined
           /\ out.value = BigAdd(task[out.task].deadline,
                                 Minutes(task[out.task].estimatedDuration))
      ELSE /\ out.pushedBy # undefined
           /\ out.value = BigAdd(BigAdd(task[out.pushedBy].deadline, Minutes(1)),
                                 Minutes(task[out.task].estimatedDuration))

\* a call whose proposal was pushed past another pending task
RescheduleResultWitness ==
  /\ out.op = "rescheduleTask"
  /\ out.pushedBy # undefined
  /\ ~OverlapsNoOther(out.task)

-----------------------------------------------------------------------------
(* Analytics specification: calculateAnalytics(tasks, history) with a      *)
(* clock that does not go back between two new Date() evaluations          *)

\* one millisecond
Ms == <<0, 1>>

ClockValues == {BigSub(T0, Ms), T0, BigAdd(T0, Ms)}

AnalyticsTask == [priority : {"medium"}, deadline : {T0, BigAdd(T0, Minutes(30))},
                  estimatedDuration : {60}, status : Statuses]

AnalyticsHistory == [completedAt : {T0}, actualDuration : {null, 30}, wasOverdue : {FALSE}]

\* the sequences over S of length at most n
SeqsUpTo(S, n) == UNION {[1..k -> S] : k \in 0..n}

InitAnalytics ==
  /\ \E n \in 0..MaxAnalyticsTasks :
       /\ task \in [1..n -> AnalyticsTask]
       /\ tasks = Iota(n)
  /\ heap = <<>>
  /\ constructed = FALSE
  /\ result = NoCall
  /\ drained = <<>>
  /\ now = <<>>
  /\ out = NoOut
  /\ history \in SeqsUpTo(AnalyticsHistory, MaxAnalyticsHistory)
  /\ req = <<>>

NonDecreasing(clock) ==
  \A k \in 1..(Len(clock) - 1) : BigLe(clock[k], clock[k + 1])

\* the sequences of n readings, none before from, of a clock that is not set back
RECURSIVE ClockReadings(_, _, _)
ClockReadings(values, n, from) ==
  IF n = 0 THEN {<<>>}
  ELSE UNION {{<<v>> \o c : c \in ClockReadings(values, n - 1, v)} :
                v \in {x \in values : BigLe(from, x)}}

(* calculateAnalytics(tasks, history) with its readings taken from values. *)
(* The function keeps nothing between two calls, so a behaviour makes one. *)
CalculateAnalyticsOn(values) ==
  /\ out = NoOut
  /\ \E clock \in ClockReadings(values, 2 * pendingPos(task, tasks, Len(tasks)) + 7, MinDate) :
       /\ NonDecreasing(clock)
       /\ now' = SubSeq(clock, 1, Len(clock) - 7)
       /\ out' = [op |-> "calculateAnalytics",
                  value |-> calculateAnalytics(task, tasks, history, clock),
                  buckets |-> analyticsBuckets(task, tasks, clock),
                  calledOn |-> toISODate(clock[1]),
                  returnedOn |-> toISODate(clock[Len(clock)])]
  /\ UNCHANGED <<task, tasks, heap, constructed, result, drained, history, req>>

CalculateAnalytics == CalculateAnalyticsOn(ClockValues)

NextAnalytics == CalculateAnalytics

SpecAnalytics == InitAnalytics /\ [][NextAnalytics]_vars

-----------------------------------------------------------------------------
(* C10: completedTasks + overdueTasks + pendingTasks <= totalTasks, no     *)
(* task being counted in more than one of the three buckets.               *)

AnalyticsTotals ==
  out.op = "calculateAnalytics" =>
    /\ out.value.completedTasks + out.value.overdueTasks + out.value.pendingTasks
         <= out.value.totalTasks
    /\ out.buckets.completed \cap out.buckets.overdue = {}
    /\ out.buckets.completed \cap out.buckets.pending = {}
    /\ out.buckets.overdue \cap out.buckets.pending = {}

\* every bucket counts a task, and a pending task whose deadline passed
\* between the two filters is counted in none
AnalyticsTotalsWitness ==
  /\ out.op = "calculateAnalytics"
  /\ out.value.totalTasks = 3
  /\ out.value.completedTasks + out.value.overdueTasks + out.value.pendingTasks = 2
  /\ \E i \in 1..Len(tasks) :
       /\ task[tasks[i]].status = "pending"
       /\ i \notin out.buckets.overdue \cup out.buckets.pending

-----------------------------------------------------------------------------
(* C11: the productivityScore returned by calculateAnalytics lies between  *)
(* 0 and 100, whatever the task array.                                     *)

ProductivityScoreRange ==
  out.op = "calculateAnalytics" =>
    /\ RatLe(RatOf(0), out.value.productivityScore)
    /\ RatLe(out.value.productivityScore, RatOf(100))

-----------------------------------------------------------------------------
(* C12: the completionRate returned by calculateAnalytics lies between 0   *)
(* and 100, and for an empty task array and an empty history the           *)
(* completionRate, the productivityScore and the averageCompletionTime are *)
(* all 0.                                                                  *)

CompletionRateRange ==
  out.op = "calculateAnalytics" =>
    /\ RatLe(RatOf(0), out.value.completionRate)
    /\ RatLe(out.value.completionRate, RatOf(100))
    /\ (tasks = <<>> /\ history = <<>>) =>
         /\ RatEq(out.value.completionRate, RatOf(0))
         /\ RatEq(out.value.productivityScore, RatOf(0))
         /\ RatEq(out.value.averageCompletionTime, RatOf(0))

\* the call on the empty task array and the empty history
CompletionRateRangeWitness ==
  /\ out.op = "calculateAnalytics"
  /\ tasks = <<>>
  /\ history = <<>>

-----------------------------------------------------------------------------
(* Trend specification: calculateAnalytics called around a UTC midnight    *)

\* 2023-11-15T00:00:00.000Z, the first midnight after T0
Midnight == BigAdd(T0, <<0, 6400000>>)

TrendClockValues == {BigSub(Midnight, Ms), Midnight}

TrendHistory ==
  [completedAt : {BigSub(Midnight, Days(7)), BigSub(Midnight, Days(6)),
                  BigSub(Midnight, Ms), Midnight},
   actualDuration : {30}, wasOverdue : BOOLEAN]

InitTrend ==
  /\ task = <<>>
  /\ tasks = <<>>
  /\ heap = <<>>
  /\ constructed = FALSE
  /\ result = NoCall
  /\ drained = <<>>
  /\ now = <<>>
  /\ out = NoOut
  /\ history \in SeqsUpTo(TrendHistory, MaxTrendHistory)
  /\ req = <<>>

CalculateAnalyticsAtMidnight == CalculateAnalyticsOn(TrendClockValues)

NextTrend == CalculateAnalyticsAtMidnight

SpecTrend == InitTrend /\ [][NextTrend]_vars

-----------------------------------------------------------------------------
(* C13: completionTrend has exactly 7 entries whose dates are the 7        *)
(* consecutive calendar days that end today, oldest first, with no day     *)
(* repeated or skipped, whatever the history holds.  Today is the UTC date *)
(* at which the call was made or at which it returned.                     *)

TrendWindow ==
  out.op = "calculateAnalytics" =>
    LET trend == out.value.completionTrend
    IN /\ DOMAIN trend = 1..7
       /\ \A i \in 1..6 : trend[i + 1].date = trend[i].date + 1
       /\ trend[7].date \in {out.calledOn, out.returnedOn}

-----------------------------------------------------------------------------
(* C19: extractMax on an empty heap returns undefined and leaves the heap  *)
(* empty; the heap is then the heap of a queue constructed from no task,   *)
(* and an insert into it gives the same heap as an insert into that one.   *)

ExtractMaxOnEmpty ==
  /\ (constructed /\ heap = <<>>) => extractMax(task, heap) = <<undefined, <<>>>>
  /\ result = undefined =>
       /\ heap = construct(task, <<>>)
       /\ size = 0
       /\ \A id \in DOMAIN task :
            insert(task, heap, id) = insert(task, construct(task, <<>>), id)

\* extractMax has been called on the empty heap
ExtractMaxOnEmptyWitness ==
  /\ constructed
  /\ result = undefined

-----------------------------------------------------------------------------
(* C20: updatePriority with a taskId that no task of the heap has changes  *)
(* nothing: the heap array, the fields of every task and size() are the    *)
(* same after the call.                                                    *)

UpdateAbsentIsNoOp ==
  [][(out'.op = "updatePriority" /\ ~out'.found) =>
       (heap' = heap /\ task' = task /\ Len(heap') = Len(heap))]_vars

\* the call was made on a heap of two tasks or more
UpdateAbsentIsNoOpWitness ==
  /\ out.op = "updatePriority"
  /\ ~out.found
  /\ size >= 2

-----------------------------------------------------------------------------
(* C16: the engine never changes what the caller passed in: whatever the   *)
(* operation (Construct, Insert, ExtractMax, UpdatePriority), the caller's *)
(* task array and every field of every task object stay as they were.      *)

InputsNeverMutated == [][tasks' = tasks /\ task' = task]_vars

-----------------------------------------------------------------------------
(* C15: a task whose stored status is pending and whose deadline is before *)
(* the evaluation time is treated as overdue: the constructor, evaluated   *)
(* at EvaluationTime, does not put it in the heap.                         *)

\* the time at which new PriorityQueue(tasks) is evaluated: one hour after T0
EvaluationTime == BigAdd(T0, Minutes(60))

PastDeadlineKeptOut ==
  JustConstructed =>
    \A i \in 1..Len(heap) :
      ~(task[heap[i]].status = "pending" /\ BigLt(task[heap[i]].deadline, EvaluationTime))

-----------------------------------------------------------------------------
(* Recommendation specification: generateRecommendations(tasks, history)   *)
(* called at T0, the clock reaching T0 + 1 ms during the call or not       *)

RecommendClockValues == {T0, BigAdd(T0, Ms)}

\* task i has a deadline of its own, two hours after the one of task i - 1;
\* the first is due one millisecond after T0
Slot(i) == BigAdd(BigAdd(T0, Ms), Hours(2 * (i - 1)))

\* a deadline that tasks may share, 24 hours and one millisecond after T0
SharedDeadline == BigAdd(BigAdd(T0, Ms), Hours(24))

\* the values of task i: the priority and the deadline of a completed task
\* are read by no rule
RecommendTask(i) ==
  {t \in [priority : {"high", "low"}, deadline : {Slot(i), SharedDeadline},
          estimatedDuration : {60}, status : {"pending", "completed"}] :
     t.status = "completed" => (t.priority = "low" /\ t.deadline = Slot(i))}

RECURSIVE RecommendTasks(_)
RecommendTasks(n) ==
  IF n = 0 THEN {<<>>}
  ELSE {Append(f, t) : f \in RecommendTasks(n - 1), t \in RecommendTask(n)}

RecommendHistory ==
  [completedAt : {BigSub(T0, Hours(2)), BigSub(T0, Hours(3))},
   actualDuration : {30}, wasOverdue : {FALSE}]

\* getCompletionHistory lists the latest completion first
InitRecommend ==
  /\ task \in RecommendTasks(MaxRecommendTasks)
  /\ tasks = Iota(MaxRecommendTasks)
  /\ heap = <<>>
  /\ constructed = FALSE
  /\ result = NoCall
  /\ drained = <<>>
  /\ now = <<>>
  /\ out = NoOut
  /\ history \in {h \in [1..MaxRecentHistory -> RecommendHistory] :
                    \A k \in 1..(MaxRecentHistory - 1) :
                      BigLe(h[k + 1].completedAt, h[k].completedAt)}
  /\ req = <<>>

\* the function keeps nothing between two calls, so a behaviour makes one
GenerateRecommendations ==
  /\ out = NoOut
  /\ \E clock \in ClockReadings(RecommendClockValues,
                                 Len(history) + Len(filterPending(task, tasks)), MinDate) :
       /\ now' = clock
       /\ out' = [op |-> "generateRecommendations",
                  value |-> generateRecommendations(task, tasks, history, clock)]
  /\ UNCHANGED <<task, tasks, heap, constructed, result, drained, history, req>>

NextRecommend == GenerateRecommendations

SpecRecommend == InitRecommend /\ [][NextRecommend]_vars

-----------------------------------------------------------------------------
(* C14: generateRecommendations emits at most one recommendation of each   *)
(* type, in the order break, workload, deadline, reschedule, and each rule *)
(* fires exactly when its own condition holds, whatever the other rules    *)
(* do: break when at least 3 completions lie in the 2 hours before the     *)
(* reading, workload when at least 5 pending tasks have priority high,     *)
(* deadline when some pending task is due after the reading and at most 24 *)
(* hours after it, reschedule when two pending tasks overlap.              *)

Rank(type) ==
  CASE type = "break" -> 1
    [] type = "workload" -> 2
    [] type = "deadline" -> 3
    [] type = "reschedule" -> 4

Fired(type) == \E i \in 1..Len(out.value) : out.value[i].type = type

\* the reading taken for the pending task at position i of tasks
ReadingFor(i) == now[Len(history) + pendingPos(task, tasks, i)]

-----------------------------------------------------------------------------
(* Storage specification: DatabaseStorage.  task is the tasks table (the   *)
(* rows by id, with the columns the engine reads), history the             *)
(* completion_history table in insertion order, now the last reading of    *)
(* the server clock.  A database statement is one step; completeTask       *)
(* awaits three of them, and other calls may run between two.              *)

StorageClockValues == {T0, BigAdd(T0, Ms)}

\* insertTaskSchema: status is optional
InsertTask ==
  [priority : {"medium"}, deadline : {T0}, estimatedDuration : {60}]
    \cup [priority : {"medium"}, deadline : {T0}, estimatedDuration : {60},
          status : Statuses]

\* updateTaskSchema: every column is optional
UpdateData ==
  {[status |-> st] : st \in Statuses} \cup {[priority |-> p] : p \in {"medium", "high"}}

\* the table after the insert; the new id is one no row has
createTask(tb, insertTask) ==
  Append(tb, [priority |-> insertTask.priority,
              deadline |-> insertTask.deadline,
              estimatedDuration |-> insertTask.estimatedDuration,
              status |-> IF "status" \in DOMAIN insertTask
                           THEN insertTask.status ELSE "pending"])

\* db.update(tasks).set(updates).where(eq(tasks.id, id))
updateTask(tb, id, updates) ==
  IF id \in DOMAIN tb
    THEN [tb EXCEPT ![id] = [f \in DOMAIN tb[id] |->
                               IF f \in DOMAIN updates THEN updates[f] ELSE tb[id][f]]]
    ELSE tb

InitStorage ==
  /\ task = <<>>
  /\ tasks = <<>>
  /\ heap = <<>>
  /\ constructed = FALSE
  /\ result = NoCall
  /\ drained = <<>>
  /\ now = <<T0>>
  /\ out = NoOut
  /\ history = <<>>
  /\ req = EmptyBag

CreateTask ==
  /\ Len(task) < MaxStoredTasks
  /\ \E insertTask \in InsertTask : task' = createTask(task, insertTask)
  /\ UNCHANGED <<tasks, heap, constructed, result, drained, now, out, history, req>>

\* id is the id of a row or an id no row has
UpdateTask ==
  /\ \E id \in 1..MaxStoredTasks, updateData \in UpdateData :
       task' = updateTask(task, id, updateData)
  /\ UNCHANGED <<tasks, heap, constructed, result, drained, now, out, history, req>>

\* completeTask(id), lines 117-118: getTask, and the return when no row has the id
CompleteTaskGet ==
  /\ Len(history) + BagCardinality(req) < MaxHistoryRecords
  /\ \E id \in 1..MaxStoredTasks :
       req' = IF id \in DOMAIN task
                THEN req (+) SetToBag({[pc |-> "addCompletionHistory", id |-> id,
                                        deadline |-> task[id].deadline,
                                        estimatedDuration |-> task[id].estimatedDuration]})
                ELSE req
  /\ UNCHANGED <<task, tasks, heap, constructed, result, drained, now, out, history>>

\* lines 120-132: the clock reading and the insert into completion_history
CompleteTaskAddHistory ==
  \E call \in BagToSet(req), completedAt \in StorageClockValues :
    /\ call.pc = "addCompletionHistory"
    /\ BigLe(now[1], completedAt)
    /\ now' = <<completedAt>>
    /\ history' = Append(history, [taskId |-> call.id,
                                   completedAt |-> completedAt,
                                   actualDuration |-> call.estimatedDuration,
                                   wasOverdue |-> BigLt(call.deadline, completedAt)])
    /\ req' = (req (-) SetToBag({call}))
                 (+) SetToBag({[pc |-> "update", id |-> call.id]})
    /\ UNCHANGED <<task, tasks, heap, constructed, result, drained, out>>

\* lines 134-140: the update of the row to completed
CompleteTaskUpdate ==
  \E call \in BagToSet(req) :
    /\ call.pc = "update"
    /\ task' = updateTask(task, call.id, [status |-> "completed"])
    /\ req' = req (-) SetToBag({call})
    /\ UNCHANGED <<tasks, heap, constructed, result, drained, now, out, history>>

NextStorage ==
  \/ CreateTask
  \/ UpdateTask
  \/ CompleteTaskGet
  \/ CompleteTaskAddHistory
  \/ CompleteTaskUpdate

SpecStorage == InitStorage /\ [][NextStorage]_vars

-----------------------------------------------------------------------------
(* C17: completion is terminal: a row whose status is completed keeps the  *)
(* status completed through every storage operation.                       *)

CompletionIsTerminal ==
  [][\A id \in DOMAIN task :
       task[id].status = "completed" => task'[id].status = "completed"]_vars

-----------------------------------------------------------------------------
(* C18: no task id has more than one completion history record, and every  *)
(* record is the record of a task of the table.                            *)

OneRecordPerTask ==
  /\ \A id \in DOMAIN task :
       Cardinality({k \in 1..Len(history) : history[k].taskId = id}) <= 1
  /\ \A k \in 1..Len(history) : history[k].taskId \in DOMAIN task

-----------------------------------------------------------------------------
(* C22: detectConflicts emits one recommendation for every overlapping     *)
(* pair (a, b) of pending tasks, a before b in the scan; it names the task *)
(* of lower priority as the one to reschedule.                             *)

\* position of the task in the array given to detectConflicts
Pos(id) == CHOOSE i \in 1..Len(tasks) : tasks[i] = id

OverlappingPairs ==
  {pair \in PendingIds \X PendingIds :
     Pos(pair[1]) < Pos(pair[2]) /\ TasksOverlap(task[pair[1]], task[pair[2]])}

\* the pair a recommendation is about, in scan order
PairOf(r) ==
  IF Pos(r.reschedule) < Pos(r.higher)
    THEN <<r.reschedule, r.higher>> ELSE <<r.higher, r.reschedule>>

\* one recommendation for each overlapping pair; of two priorities that
\* differ the lower is named, and named(a, b) is named when they are equal
NamesLowerPriority(named(_, _)) ==
  out.op = "detectConflicts" =>
    LET recs == out.value.recommendations
    IN /\ Len(recs) = Cardinality(OverlappingPairs)
       /\ {PairOf(recs[k]) : k \in 1..Len(recs)} = OverlappingPairs
       /\ \A k \in 1..Len(recs) :
            LET a == PairOf(recs[k])[1]
                b == PairOf(recs[k])[2]
                pa == PRIORITY_VALUES(task[a].priority)
                pb == PRIORITY_VALUES(task[b].priority)
            IN recs[k].reschedule = IF pa < pb THEN a
                                    ELSE IF pa > pb THEN b
                                    ELSE named(a, b)

\* as stated: with equal priorities the recommendation names b, the second
\* task of the scan
ConflictRecommendationAsStated == NamesLowerPriority(LAMBDA a, b : b)

\* with equal priorities the recommendation names a, the first task of the
\* scan
ConflictRecommendation == NamesLowerPriority(LAMBDA a, b : a)

\* an overlapping pair of equal priorities and one of different priorities
ConflictRecommendationWitness ==
  /\ out.op = "detectConflicts"
  /\ \E k \in 1..Len(out.value.recommendations) :
       task[out.value.recommendations[k].reschedule].priority
         = task[out.value.recommendations[k].higher].priority
  /\ \E k \in 1..Len(out.value.recommendations) :
       task[out.value.recommendations[k].reschedule].priority = "low"
         /\ task[out.value.recommendations[k].higher].priority = "high"

-----------------------------------------------------------------------------
(* C28: rescheduleTask never returns the current deadline of the task or   *)
(* an earlier time: the result is at least the deadline plus the duration, *)
(* also for a task that overlaps no other, and rescheduling the task again *)
(* from the result gives a later time still.                               *)

RescheduleMovesForward ==
  out.op = "rescheduleTask" =>
    LET t == task[out.task]
        moved == [t EXCEPT !.deadline = out.value]
        again == rescheduleTask([task EXCEPT ![out.task] = moved], tasks, out.task, moved)
    IN /\ t.estimatedDuration > 0
       /\ BigLe(BigAdd(t.deadline, Minutes(t.estimatedDuration)), out.value)
       /\ BigLt(t.deadline, out.value)
       /\ BigLt(out.value, again)

\* the call for a task that overlaps no other task
RescheduleMovesForwardWitness ==
  /\ out.op = "rescheduleTask"
  /\ out.pushedBy = undefined
  /\ \A id \in Range(tasks) \ {out.task} : ~TasksOverlap(task[out.task], task[id])

-----------------------------------------------------------------------------
(* C29: when every new Date() of a calculateAnalytics call gives the same  *)
(* time, the three buckets partition the tasks: completedTasks +           *)
(* overdueTasks + pendingTasks = totalTasks, and a pending task whose      *)
(* deadline is that time is counted as pending, not as overdue.            *)

OneEvaluationTime == \A k \in 1..Len(now) : now[k] = now[1]

AnalyticsPartition ==
  (out.op = "calculateAnalytics" /\ OneEvaluationTime) =>
    /\ \A i \in 1..Len(tasks) : task[tasks[i]].status \in Statuses
    /\ out.value.completedTasks + out.value.overdueTasks + out.value.pendingTasks
         = out.value.totalTasks
    /\ out.buckets.completed \cup out.buckets.overdue \cup out.buckets.pending
         = 1..Len(tasks)
    /\ \A i \in 1..Len(tasks) :
         (task[tasks[i]].status = "pending" /\ task[tasks[i]].deadline = now[1]) =>
           (i \in out.buckets.pending /\ i \notin out.buckets.overdue)

\* a completed task, an overdue task and a pending task due at the
\* evaluation time
AnalyticsPartitionWitness ==
  /\ out.op = "calculateAnalytics"
  /\ OneEvaluationTime
  /\ out.value.completedTasks = 1
  /\ out.value.overdueTasks = 1
  /\ \E i \in 1..Len(tasks) :
       task[tasks[i]].status = "pending" /\ task[tasks[i]].deadline = now[1]

-----------------------------------------------------------------------------
(* C25: generateRecommendations emits a deadline recommendation exactly    *)
(* when some pending task is due after the reading and at most 24 hours    *)
(* after it; relatedTasks holds the ids of all these tasks and no other    *)
(* id, and the severity is critical for more than 3 of them and warning    *)
(* for 1 to 3.                                                             *)

\* positions of the pending tasks due within 24 hours of their reading
DueWithinDay ==
  {i \in 1..Len(tasks) :
     /\ task[tasks[i]].status = "pending"
     /\ BigLt(ReadingFor(i), task[tasks[i]].deadline)
     /\ BigLe(task[tasks[i]].deadline, BigAdd(ReadingFor(i), Hours(24)))}

-----------------------------------------------------------------------------
(* C26: for each of the 7 trend days, completed is the number of history   *)
(* records completed on that day with wasOverdue false and overdue the     *)
(* number with wasOverdue true; a record completed inside the window of    *)
(* the 7 days that end today is counted in exactly one entry, a record     *)
(* completed outside it in none.  Inside is inside the window whether      *)
(* today is the date of the call or the date of the return; outside is     *)
(* outside both.                                                           *)

CompletedOn(k) == toISODate(history[k].completedAt)

EntriesFor(k) == {i \in 1..7 : out.value.completionTrend[i].date = CompletedOn(k)}

TrendContent ==
  out.op = "calculateAnalytics" =>
    /\ \A i \in 1..7 :
         LET entry == out.value.completionTrend[i]
             ofDay == {k \in 1..Len(history) : CompletedOn(k) = entry.date}
         IN /\ entry.completed = Cardinality({k \in ofDay : ~history[k].wasOverdue})
            /\ entry.overdue = Cardinality({k \in ofDay : history[k].wasOverdue})
    /\ \A k \in 1..Len(history) :
         /\ (out.returnedOn - 6 <= CompletedOn(k) /\ CompletedOn(k) <= out.calledOn)
              => Cardinality(EntriesFor(k)) = 1
         /\ (CompletedOn(k) < out.calledOn - 6 \/ CompletedOn(k) > out.returnedOn)
              => EntriesFor(k) = {}

-----------------------------------------------------------------------------
(* Ordering specification: sortByDeadline(tasks) and detectConflicts(tasks) *)
(* on arrays of 0..MaxOrderTasks tasks of any status                        *)

OrderTask == [priority : {"medium"}, deadline : ScheduleDeadlines,
              estimatedDuration : {30, 60}, status : {"pending", "completed"}]

InitOrder ==
  /\ \E n \in 0..MaxOrderTasks :
       /\ task \in [1..n -> OrderTask]
       /\ tasks = Iota(n)
  /\ heap = <<>>
  /\ constructed = FALSE
  /\ result = NoCall
  /\ drained = <<>>
  /\ now = <<>>
  /\ out = NoOut
  /\ history = <<>>
  /\ req = <<>>

SortByDeadline ==
  /\ out' = [op |-> "sortByDeadline", value |-> sortByDeadline(task, tasks)]
  /\ UNCHANGED <<task, tasks, heap, constructed, result, drained, now, history, req>>

NextOrder == SortByDeadline \/ DetectConflicts

SpecOrder == InitOrder /\ [][NextOrder]_vars

-----------------------------------------------------------------------------
(* C21: sortByDeadline returns a permutation of its input in ascending     *)
(* deadline order, tasks with equal deadlines in their input order; tasks  *)
(* of every status are kept, and the input array and its tasks are left    *)
(* as they were.                                                           *)

SortByDeadlineResult ==
  [][out'.op = "sortByDeadline" =>
       LET sorted == out'.value
       IN /\ tasks' = tasks
          /\ task' = task
          /\ Len(sorted) = Len(tasks)
          /\ IsPermutation(sorted, Range(tasks))
          /\ \A i, j \in 1..Len(sorted) :
               i < j =>
                 /\ BigLe(task[sorted[i]].deadline, task[sorted[j]].deadline)
                 /\ task[sorted[i]].deadline = task[sorted[j]].deadline
                      => Pos(sorted[i]) < Pos(sorted[j])]_vars

\* a call that reorders an array holding two tasks with one deadline and a
\* completed task
SortByDeadlineResultWitness ==
  /\ out.op = "sortByDeadline"
  /\ out.value # tasks
  /\ \E a, b \in Range(tasks) : a # b /\ task[a].deadline = task[b].deadline
  /\ \E a \in Range(tasks) : task[a].status = "completed"

-----------------------------------------------------------------------------
(* C30: the verdict of detectConflicts does not depend on the order of its *)
(* input: on every permutation of the array hasConflict is the same and    *)
(* conflictingTasks holds the same set of tasks.                           *)

Permuted(p) == [k \in 1..Len(tasks) |-> tasks[p[k]]]

ConflictsOrderIndependent ==
  out.op = "detectConflicts" =>
    \A p \in Permutations(1..Len(tasks)) :
      LET verdict == detectConflicts(task, Permuted(p))
      IN /\ verdict.hasConflict = out.value.hasConflict
         /\ Range(verdict.conflictingTasks) = Range(out.value.conflictingTasks)

\* three pending tasks of which two conflict
ConflictsOrderIndependentWitness ==
  /\ out.op = "detectConflicts"
  /\ Cardinality(PendingIds) = 3
  /\ out.value.hasConflict
  /\ Len(out.value.conflictingTasks) = 2

-----------------------------------------------------------------------------
(* Queue specification: new PriorityQueue(tasks), insert, extractMax and   *)
(* updatePriority of a task in the heap, on task objects of any status;    *)
(* out records the arguments of the last updatePriority                    *)

QueueTask == [priority : {"high", "low"}, deadline : {T0},
              estimatedDuration : {60}, status : {"pending", "completed"}]

InitQueue ==
  /\ task \in [1..MaxQueueTasks -> QueueTask]
  /\ tasks = Iota(MaxQueueTasks)
  /\ heap = <<>>
  /\ constructed = FALSE
  /\ result = NoCall
  /\ drained = <<>>
  /\ now = <<>>
  /\ out = NoOut
  /\ history = <<>>
  /\ req = <<>>

UpdatePriorityPresent ==
  /\ constructed
  /\ \E taskId \in Range(heap), newPriority \in Priorities :
       LET r == updatePriority(task, heap, taskId, newPriority)
       IN /\ task' = r[1]
          /\ heap' = r[2]
          /\ out' = [op |-> "updatePriority", found |-> TRUE,
                     taskId |-> taskId, newPriority |-> newPriority]
  /\ result' = NoCall
  /\ drained' = <<>>
  /\ UNCHANGED <<tasks, constructed, now, history, req>>

NextQueue == Construct \/ Insert \/ ExtractMax \/ UpdatePriorityPresent

SpecQueue == InitQueue /\ [][NextQueue]_vars

-----------------------------------------------------------------------------
(* C23: the heap is a dense array; Construct leaves in it exactly the      *)
(* pending tasks of the input, Insert adds one task and raises size() by   *)
(* 1, ExtractMax on a non-empty heap returns the root, removes it and      *)
(* lowers size() by 1, and UpdatePriority leaves the multiset of tasks as  *)
(* it was: the multiset is the pending input plus the inserted minus the   *)
(* extracted tasks.                                                        *)

Dense(h) == DOMAIN h = 1..Cardinality(DOMAIN h)

HeapBag(h) == [id \in Range(h) |-> Cardinality({i \in DOMAIN h : h[i] = id})]

ElementConservation ==
  [][/\ Dense(heap')
     /\ Construct => HeapBag(heap') = SetToBag(PendingIds)
     /\ Insert => /\ Len(heap') = size + 1
                  /\ \E id \in DOMAIN task : HeapBag(heap') = HeapBag(heap) (+) SetToBag({id})
     /\ ExtractMax => IF heap = <<>>
                        THEN heap' = heap
                        ELSE /\ result' = heap[1]
                             /\ Len(heap') = size - 1
                             /\ HeapBag(heap') = HeapBag(heap) (-) SetToBag({heap[1]})
     /\ UpdatePriorityPresent => /\ Len(heap') = size
                                 /\ HeapBag(heap') = HeapBag(heap)]_vars

\* extractMax has just returned a task and left in the heap a task that
\* insert put there: the task is not pending
ElementConservationWitness ==
  /\ constructed
  /\ result \notin {NoCall, undefined}
  /\ \E id \in Range(heap) : task[id].status # "pending"
  /\ \E id \in PendingIds : id \notin Range(heap) /\ id # result

-----------------------------------------------------------------------------
(* C24: updatePriority(taskId, p) of a task in the heap sets the priority  *)
(* of that task to p and changes no other field and no other task; the     *)
(* heap holds the same tasks, and the task moves toward the root if its    *)
(* score rose and away from it, or not at all, otherwise (also when p is   *)
(* the priority it had).                                                   *)

IndexOf(h, id) == CHOOSE i \in 1..Len(h) : h[i] = id

UpdatePriorityFrame ==
  [][(out'.op = "updatePriority" /\ out'.found) =>
       LET id == out'.taskId
           p == out'.newPriority
       IN /\ id \in Range(heap)
          /\ task' = [task EXCEPT ![id].priority = p]
          /\ Len(heap') = Len(heap)
          /\ Range(heap') = Range(heap)
          /\ IF BigLt(getTaskPriority(task[id]), getTaskPriority(task'[id]))
               THEN IndexOf(heap', id) <= IndexOf(heap, id)
               ELSE IndexOf(heap', id) >= IndexOf(heap, id)
          /\ p = task[id].priority => (task' = task /\ heap' = heap)]_vars

\* a call that made a task high and left it at the root of a heap of three
\* tasks, above a medium task
UpdatePriorityFrameWitness ==
  /\ out.op = "updatePriority"
  /\ out.found
  /\ size = 3
  /\ heap[1] = out.taskId
  /\ task[out.taskId].priority = "high"
  /\ \E id \in Range(heap) : id # out.taskId /\ task[id].priority = "medium"

-----------------------------------------------------------------------------
(* Reschedule specification: POST /api/tasks/:id/reschedule requests on a  *)
(* tasks table.  A request is a chain of awaits (getTask, getAllTasks,     *)
(* updateTask) and the steps of different requests interleave; task is the *)
(* table, tasks the ids in the order getAllTasks returns them, req the     *)
(* requests and out the last response.                                     *)
(* The handler is taken as registered on app with rescheduleTask of        *)
(* algorithms.ts in scope; in the routes file it follows the closing brace *)
(* of registerRoutes and the import of rescheduleTask is commented out.    *)

\* db.select().from(tasks).orderBy(desc(tasks.createdAt)): rows are created
\* in the order of their ids
getAllTasks(tb) == [k \in 1..Len(tb) |-> Len(tb) + 1 - k]

RescheduleRow == [priority : {"medium"}, deadline : {T0, BigAdd(T0, Minutes(30))},
                  estimatedDuration : {60}, status : {"pending", "completed"}]

InitReschedule ==
  /\ task \in [1..MaxRescheduleTasks -> RescheduleRow]
  /\ tasks = getAllTasks(task)
  /\ heap = <<>>
  /\ constructed = FALSE
  /\ result = NoCall
  /\ drained = <<>>
  /\ now = <<>>
  /\ out = NoOut
  /\ history = <<>>
  /\ req = EmptyBag

\* storage.getTask(req.params.id) and the 404 response when no row has the id
RescheduleGetTask ==
  /\ BagCardinality(req) < MaxRescheduleRequests
  /\ \E id \in 1..(Len(task) + 1) :
       IF id \in DOMAIN task
         THEN /\ req' = req (+) SetToBag({[pc |-> "getAllTasks", id |-> id, task |-> task[id]]})
              /\ out' = NoOut
         ELSE /\ req' = req
              /\ out' = [op |-> "reschedule", status |-> 404]
  /\ UNCHANGED <<task, tasks, heap, constructed, result, drained, now, history>>

\* storage.getAllTasks() and rescheduleTask(task, allTasks)
RescheduleGetAllTasks ==
  \E call \in BagToSet(req) :
    /\ call.pc = "getAllTasks"
    /\ req' = (req (-) SetToBag({call}))
                 (+) SetToBag({[pc |-> "updateTask", id |-> call.id,
                                newDeadline |-> rescheduleTask(task, getAllTasks(task),
                                                               call.id, call.task)]})
    /\ out' = NoOut
    /\ UNCHANGED <<task, tasks, heap, constructed, result, drained, now, history>>

\* storage.updateTask(req.params.id, {deadline: newDeadline})
RescheduleUpdateTask ==
  \E call \in BagToSet(req) :
    /\ call.pc = "updateTask"
    /\ task' = updateTask(task, call.id, [deadline |-> call.newDeadline])
    /\ req' = (req (-) SetToBag({call}))
                 (+) SetToBag({[pc |-> "respond", id |-> call.id,
                                newDeadline |-> call.newDeadline]})
    /\ out' = NoOut
    /\ UNCHANGED <<tasks, heap, constructed, result, drained, now, history>>

\* res.json({task, newDeadline, message: "Task successfully rescheduled to
\* avoid conflicts"})
RescheduleRespond ==
  \E call \in BagToSet(req) :
    /\ call.pc = "respond"
    /\ out' = [op |-> "reschedule", status |-> 200, task |-> call.id,
               newDeadline |-> call.newDeadline]
    /\ req' = (req (-) SetToBag({call})) (+) SetToBag({[pc |-> "done", id |-> call.id]})
    /\ UNCHANGED <<task, tasks, heap, constructed, result, drained, now, history>>

NextReschedule ==
  \/ RescheduleGetTask
  \/ RescheduleGetAllTasks
  \/ RescheduleUpdateTask
  \/ RescheduleRespond

SpecReschedule == InitReschedule /\ [][NextReschedule]_vars

-----------------------------------------------------------------------------
(* C27: in every interleaving of reschedule requests, when a request       *)
(* responds "Task successfully rescheduled to avoid conflicts" the stored  *)
(* interval of its task overlaps the interval of no other stored pending   *)
(* task.                                                                   *)

=============================================================================
